---- MODULE Spec2Model ----
(***************************************************************************)
(* A model of the flower garden: the flower store (src/lib/flower-storage), *)
(* the page's view state (src/app/page.tsx) and the scene components        *)
(* (src/components/flower-scene.tsx).                                       *)
(*                                                                          *)
(* Numbers.  The program computes with floating-point lengths; the model    *)
(* keeps them as integers counted in thousandths of a unit, so that         *)
(* stemHeight 6 is 6000 and the factor 0.15 is 150/1000.  Every input set   *)
(* below holds multiples of 100, for which each product the model takes is  *)
(* exact.  A nullable value is a sequence: <<>> is null and <<v>> is v.     *)
(***************************************************************************)
EXTENDS Integers, Sequences, FiniteSets, TLC

\* ------------------------------------------------------------------ bounds
\* Flowers the store ever holds (ids are 1..MaxFlowers, never reused).
MaxFlowers == 2
\* waterFlower calls in flight or finished.
MaxCalls == 2
\* The wall clock (new Date()) runs from 1 to MaxTime.
MaxTime == 2

\* ----------------------------------------------------------------- helpers
Null == <<>>
Some(v) == <<v>>
IsNull(o) == o = <<>>
\* JavaScript's (v || 0) for a nullable number.
OrZero(o) == IF o = <<>> THEN 0 ELSE o[1]
Max(a, b) == IF a >= b THEN a ELSE b
\* new Date(0).toISOString(): the timestamps of the model count from it.
Epoch == 0
\* Thousandths of a unit in one unit.
Unit == 10 * 100

Ids == 1 .. MaxFlowers
\* Two Flower components side by side.
Instances == {1, 2}
CallIds == 1 .. MaxCalls
Users == {"ann"}
\* Stem heights the editor can hold (page.tsx 342-343: the slider runs 1 .. 5).
StemHeights == {3 * Unit, 5 * Unit}

VARIABLES
    \* --- the store (the "flowers" table) and the clock
    table,        \* id -> row, for the ids that have a row
    usedIds,      \* ids the store has ever assigned
    now,          \* the wall clock
    calls,        \* waterFlower call -> its position and locals
    watered,      \* id -> number of waterFlower calls that returned a record
    \* --- the field: what Field last rendered and its mounted flowers
    snapshot,     \* the plantedFlowers prop: a sequence of [id, lastWatered]
    comps,        \* id -> state of the mounted PlantedFlowerWithLabel
    \* --- the page (Home)
    user,         \* the signed-in user, or null
    stemHeight,   \* the editor's stem height
    isPlanted,    \* TRUE in the field view, FALSE in the editor
    plantedFlowers,        \* the page's local list
    focusedFlowerPosition, \* the just-planted focus, or null
    \* --- the camera (CameraController)
    cameraProps,  \* the props of the last run of its effect, null before the first
    camera,       \* [position, target] as the effect left them
    \* --- placement (PlantedFlowerWithLabel and FlowerScene)
    placed,       \* the last placement: its inputs and the positions rendered
    \* --- getPlantedFlowers
    fetched,      \* the last fetch: what the store answered and what was returned
    \* --- the Flower components
    flowerComps,      \* instance -> null, or its props and what useMemo computed
    refs,         \* instance -> null, or the groups its frame callback writes
    \* --- FlowerScene
    flowerScene   \* null, or the props of the mounted scene and its onLoad calls

storeVars == <<table, usedIds, now, calls, watered>>
sceneVars == <<snapshot, comps>>
pageVars == <<user, stemHeight, isPlanted, plantedFlowers, focusedFlowerPosition>>
cameraVars == <<cameraProps, camera>>
vars == <<flowerComps, refs, flowerScene, storeVars, sceneVars, pageVars, cameraVars, placed, fetched>>
notStore == <<flowerComps, refs, flowerScene, sceneVars, pageVars, cameraVars, placed, fetched>>
notScene == <<flowerComps, refs, flowerScene, storeVars, pageVars, cameraVars, placed, fetched>>
notPage == <<flowerComps, refs, flowerScene, sceneVars, cameraVars, placed, fetched>>
notCamera == <<flowerComps, refs, flowerScene, storeVars, sceneVars, pageVars, placed, fetched>>
notPlaced == <<storeVars, sceneVars, pageVars, cameraVars, fetched, flowerComps, refs, flowerScene>>
notFetched == <<storeVars, sceneVars, pageVars, cameraVars, placed, flowerComps, refs, flowerScene>>
notFlowers == <<storeVars, sceneVars, pageVars, cameraVars, placed, fetched, refs, flowerScene>>
notRefs == <<storeVars, sceneVars, pageVars, cameraVars, placed, fetched, flowerComps, flowerScene>>
notFlowerScene == <<storeVars, sceneVars, pageVars, cameraVars, placed, fetched, flowerComps, refs>>

\* ------------------------------------------------------ the vertical rule
\* A rule that lowers the vertical coordinate by the offset.
PlantPositionLowered(position, height) ==
    <<position[1],
      position[2] - Max(0, ((height - 4 * Unit) * 150) \div Unit),
      position[3]>>

\* flower-storage.ts 52-59: position[1] is overwritten for tall stems.
PlantPosition(position, height) ==
    IF height > 4 * Unit
    THEN <<position[1], -Max(0, ((height - 4 * Unit) * 150) \div Unit), position[3]>>
    ELSE <<position[1], position[2], position[3]>>

\* ---------------------------------------------------------------- the store
IdleCall == [pc |-> "idle", flowerId |-> 0, newWaterCount |-> 0,
             lastWatered |-> 0, result |-> Null]

\* The state after construction: an empty table (flower-storage.ts 22), no
\* flower mounted, the page's useState values (page.tsx 32-47), the Canvas
\* camera (flower-scene.tsx 467), nothing placed or fetched yet.
Init ==
    /\ table = <<>>
    /\ usedIds = {}
    /\ now = 1
    /\ calls = [c \in CallIds |-> IdleCall]
    /\ watered = [i \in Ids |-> 0]
    /\ snapshot = <<>>
    /\ comps = <<>>
    /\ user = Null
    /\ stemHeight = 3 * Unit
    /\ isPlanted = FALSE
    /\ plantedFlowers = <<>>
    /\ focusedFlowerPosition = Null
    /\ cameraProps = Null
    /\ camera = [position |-> <<0, 5 * Unit, 4 * Unit>>, target |-> <<0, 0, 0>>]
    /\ placed = Null
    /\ fetched = Null
    /\ flowerComps = [k \in Instances |-> Null]
    /\ refs = [k \in Instances |-> Null]
    /\ flowerScene = Null

\* What plantFlower and waterFlower make of the row the store returns
\* (flower-storage.ts 83-93, 160-170): a missing plantedAt gets the default.
\* The rows of this table hold a three-number position, which the code keeps.
Normalised(row, plantedAtDefault) ==
    [row EXCEPT !.plantedAt = IF IsNull(row.plantedAt) THEN Some(plantedAtDefault)
                              ELSE row.plantedAt]

\* plantFlower's insert (flower-storage.ts 61-74): the row handed to the store.
\* The store assigns the id and the column default of waterCount (null or 0:
\* the schema is not part of the sources).
InsertedRow(flowerData, id, countDefault) ==
    [id |-> id, username |-> flowerData.username,
     stemHeight |-> flowerData.stemHeight,
     position |-> PlantPosition(flowerData.position, flowerData.stemHeight),
     plantedAt |-> Some(now),
     lastWatered |-> Null,
     waterCount |-> countDefault]

\* The next id the store hands out.
NextId == CHOOSE i \in Ids \ usedIds : \A j \in Ids \ usedIds : i <= j

\* plantFlower (flower-storage.ts 48-94): the insert fails and changes nothing,
\* or it creates the row.
PlantFlower(flowerData, error, countDefault) ==
    /\ UNCHANGED <<now, calls, watered>>
    /\ IF error
       THEN UNCHANGED <<table, usedIds>>
       ELSE /\ Ids \ usedIds # {}
            /\ usedIds' = usedIds \cup {NextId}
            /\ table' = [i \in DOMAIN table \cup {NextId} |->
                           IF i = NextId
                           THEN InsertedRow(flowerData, NextId, countDefault)
                           ELSE table[i]]

\* What plantFlower resolves to (flower-storage.ts 76-93): null on an error,
\* the normalised row otherwise.
PlantFlowerResult(flowerData, error, countDefault) ==
    IF error THEN Null
    ELSE Some(Normalised(InsertedRow(flowerData, NextId, countDefault), now))

\* waterFlower, first half (flower-storage.ts 127-142): read waterCount, then
\* compute the new count and the timestamp.
WaterFetch(c, flowerId, fetchError) ==
    /\ calls[c].pc = "idle"
    /\ UNCHANGED <<table, usedIds, now, watered>>
    /\ IF fetchError \/ flowerId \notin DOMAIN table
       THEN calls' = [calls EXCEPT ![c] = [IdleCall EXCEPT !.pc = "done",
                                                          !.flowerId = flowerId]]
       ELSE calls' = [calls EXCEPT ![c] =
                        [pc |-> "fetched", flowerId |-> flowerId,
                         newWaterCount |-> OrZero(table[flowerId].waterCount) + 1,
                         lastWatered |-> now, result |-> Null]]

\* An update without the filter on the id: it writes to every row.
WaterUpdateEveryRow(c, error) ==
    /\ calls[c].pc = "fetched"
    /\ UNCHANGED <<usedIds, now>>
    /\ LET id == calls[c].flowerId IN
       IF error \/ id \notin DOMAIN table
       THEN /\ calls' = [calls EXCEPT ![c] = [IdleCall EXCEPT !.pc = "done",
                                                            !.flowerId = id]]
            /\ UNCHANGED <<table, watered>>
       ELSE /\ table' = [i \in DOMAIN table |->
                           [table[i] EXCEPT !.lastWatered = Some(calls[c].lastWatered),
                                            !.waterCount = Some(calls[c].newWaterCount)]]
            /\ calls' = [calls EXCEPT ![c] =
                             [IdleCall EXCEPT !.pc = "done", !.flowerId = id,
                                              !.result = Some(Normalised(table'[id], Epoch))]]
            /\ watered' = [watered EXCEPT ![id] = @ + 1]

\* waterFlower, second half (flower-storage.ts 144-170): the update writes the
\* two values computed from the earlier read; an update that matches no row is
\* an error of .single().  A call that has returned keeps its result only.
WaterUpdate(c, error) ==
    /\ calls[c].pc = "fetched"
    /\ UNCHANGED <<usedIds, now>>
    /\ LET id == calls[c].flowerId IN
       IF error \/ id \notin DOMAIN table
       THEN /\ calls' = [calls EXCEPT ![c] = [IdleCall EXCEPT !.pc = "done",
                                                            !.flowerId = id]]
            /\ UNCHANGED <<table, watered>>
       ELSE /\ table' = [table EXCEPT ![id].lastWatered = Some(calls[c].lastWatered),
                                      ![id].waterCount = Some(calls[c].newWaterCount)]
            /\ calls' = [calls EXCEPT ![c] =
                             [IdleCall EXCEPT !.pc = "done", !.flowerId = id,
                                              !.result = Some(Normalised(table'[id], Epoch))]]
            /\ watered' = [watered EXCEPT ![id] = @ + 1]

\* removeFlower (flower-storage.ts 174-183).
RemoveFlower(flowerId, error) ==
    /\ flowerId \in DOMAIN table
    /\ UNCHANGED <<usedIds, now, calls, watered>>
    /\ IF error
       THEN UNCHANGED table
       ELSE table' = [i \in DOMAIN table \ {flowerId} |-> table[i]]

\* new Date() moves on.
Tick ==
    /\ now < MaxTime
    /\ now' = now + 1
    /\ UNCHANGED <<table, usedIds, calls, watered>>

\* ---------------------------------------------------------------- the field
\* useState at mount (flower-scene.tsx 164-166): lastWateredTime starts as the
\* first props.lastWatered.  started and changes are history: how often the
\* active flag handed to WaterDroplets went from false to true, and how often
\* props.lastWatered differed from the one before.
Mounted(props) ==
    [lastWatered |-> props.lastWatered,
     lastWateredTime |-> props.lastWatered,
     showWaterAnimation |-> FALSE,
     started |-> 0, changes |-> 0]

\* The effect of flower-scene.tsx 182-187, run to its fixed point: it sets the
\* two states, and its second run (lastWateredTime changed) finds them equal.
WateringEffect(comp, lastWatered) ==
    IF ~IsNull(lastWatered) /\ lastWatered # comp.lastWateredTime
    THEN [comp EXCEPT !.lastWateredTime = lastWatered, !.showWaterAnimation = TRUE]
    ELSE comp

\* One PlantedFlowerWithLabel rendered with new props (flower-scene.tsx
\* 163-203).  WaterDroplets sees only active = showWaterAnimation (199-203): the
\* one-shot effect starts when that flag rises.
Rendered(comp, props) ==
    LET after == WateringEffect(comp, props.lastWatered) IN
    [after EXCEPT !.lastWatered = props.lastWatered,
                  !.changes = IF props.lastWatered # comp.lastWatered THEN @ + 1 ELSE @,
                  !.started = IF after.showWaterAnimation /\ ~comp.showWaterAnimation
                              THEN @ + 1 ELSE @]

SnapshotIds(flowers) == {flowers[i].id : i \in DOMAIN flowers}
PropsOf(flowers, id) == flowers[CHOOSE i \in DOMAIN flowers : flowers[i].id = id]

\* Field rendered with a new plantedFlowers (flower-scene.tsx 149-158): the
\* flowers are keyed by id, so a flower of the old list keeps its state, a new
\* one mounts and a missing one unmounts.
FieldRender(flowers) ==
    /\ snapshot' = flowers
    /\ comps' = [id \in SnapshotIds(flowers) |->
                   IF id \in DOMAIN comps
                   THEN Rendered(comps[id], PropsOf(flowers, id))
                   ELSE Mounted(PropsOf(flowers, id))]

\* WaterDroplets calls onComplete (flower-scene.tsx 202).
WaterComplete(id) ==
    /\ id \in DOMAIN comps
    /\ comps[id].showWaterAnimation
    /\ comps' = [comps EXCEPT ![id].showWaterAnimation = FALSE]
    /\ UNCHANGED snapshot

\* The snapshots the store can produce after the current one: any set of
\* flowers with unique ids, listed by id upwards or downwards (so a new snapshot
\* may reorder, add and remove flowers); the lastWatered of a flower is null
\* until a watering sets it to the clock, which never runs backwards.
Timestamps == {Null} \cup {Some(t) : t \in 1 .. MaxTime}
NotBefore(old, new) == IsNull(old) \/ (~IsNull(new) /\ new[1] >= old[1])
Listed(ids, lastWatered, upwards) ==
    [k \in 1 .. Cardinality(ids) |->
        LET id == CHOOSE i \in ids :
                      Cardinality({j \in ids : IF upwards THEN j < i ELSE j > i}) = k - 1
        IN [id |-> id, lastWatered |-> lastWatered[id]]]
Snapshots ==
    {Listed(ids, lw, up) :
        ids \in SUBSET Ids,
        lw \in {w \in [Ids -> Timestamps] :
                  \A i \in Ids : IF i \in DOMAIN comps
                                 THEN NotBefore(comps[i].lastWatered, w[i])
                                 ELSE TRUE},
        up \in BOOLEAN}

\* ----------------------------------------------------------------- the page
\* useUser: signing in and out.
SignIn(u) ==
    /\ user = Null
    /\ user' = Some(u)
    /\ UNCHANGED <<stemHeight, isPlanted, plantedFlowers, focusedFlowerPosition>>

SignOut ==
    /\ user # Null
    /\ user' = Null
    /\ UNCHANGED <<stemHeight, isPlanted, plantedFlowers, focusedFlowerPosition>>

\* A page without the resetting effect.
FocusKept(planted, focus) == focus

\* The effect of page.tsx 79-83, which follows every change of isPlanted.
FocusAfter(planted, focus) == IF ~planted THEN Null ELSE focus

\* handlePlantFlower (page.tsx 110-143).  plantFlower is called without await:
\* what is appended is its promise, kept here with the value it resolves to.
HandlePlantFlower(x, z, error, countDefault, newStemHeight) ==
    /\ user # Null
    /\ LET position == <<x, 0, z>>
           flowerData == [username |-> user[1], stemHeight |-> stemHeight,
                          position |-> position]
       IN /\ PlantFlower(flowerData, error, countDefault)
          /\ plantedFlowers' = Append(plantedFlowers,
                 [promise |-> TRUE,
                  value |-> PlantFlowerResult(flowerData, error, countDefault)])
          /\ isPlanted' = TRUE
          /\ focusedFlowerPosition' = FocusAfter(TRUE, Some(position))
    /\ stemHeight' = newStemHeight
    /\ UNCHANGED user

\* toggleView (page.tsx 145-147) and the effect it triggers.
ToggleView ==
    /\ isPlanted' = ~isPlanted
    /\ focusedFlowerPosition' = FocusAfter(~isPlanted, focusedFlowerPosition)
    /\ UNCHANGED <<user, stemHeight, plantedFlowers>>

\* --------------------------------------------------------------- the camera
\* A lookup that falls back to the first flower instead of null.
WateredFlowerPositionOrFirst(wateredFlowerId, flowers) ==
    IF IsNull(wateredFlowerId) \/ Len(flowers) = 0 THEN Null
    ELSE LET hits == {i \in DOMAIN flowers : flowers[i].id = wateredFlowerId[1]} IN
         IF hits = {} THEN Some(flowers[1].position)
         ELSE Some(flowers[CHOOSE i \in hits : \A j \in hits : i <= j].position)

\* The memo of flower-scene.tsx 360-364: the position of the first flower with
\* the watered id, or null.
WateredFlowerPosition(wateredFlowerId, flowers) ==
    IF IsNull(wateredFlowerId) \/ Len(flowers) = 0 THEN Null
    ELSE LET hits == {i \in DOMAIN flowers : flowers[i].id = wateredFlowerId[1]} IN
         IF hits = {} THEN Null
         ELSE Some(flowers[CHOOSE i \in hits : \A j \in hits : i <= j].position)

\* A watered branch that frames like the just-planted branch.
CameraFramingWateredAsPlanted(p) ==
    LET wateredFlowerPosition ==
            WateredFlowerPosition(p.wateredFlowerId, p.plantedFlowers)
        focus == IF ~IsNull(wateredFlowerPosition) THEN wateredFlowerPosition
                 ELSE p.focusedFlowerPosition IN
    IF p.isPlanted
    THEN IF ~IsNull(focus)
         THEN [position |-> <<focus[1][1] + 8 * Unit, 8 * Unit, focus[1][3] + 8 * Unit>>,
               target |-> focus[1]]
         ELSE [position |-> <<8 * Unit, 8 * Unit, 8 * Unit>>, target |-> <<0, 0, 0>>]
    ELSE [position |-> <<0, Max(5 * Unit, ((p.stemHeight + Unit) * 1200) \div Unit),
                         Max(4 * Unit, p.stemHeight + Unit)>>,
          target |-> <<0, (p.stemHeight * 300) \div Unit, 0>>]

\* A single view that looks at the just-planted focus when there is one.
CameraFramingSingleFollowsFocus(p) ==
    LET wateredFlowerPosition ==
            WateredFlowerPosition(p.wateredFlowerId, p.plantedFlowers) IN
    IF p.isPlanted
    THEN IF ~IsNull(wateredFlowerPosition)
         THEN [position |-> <<wateredFlowerPosition[1][1] + 7 * Unit, 9 * Unit,
                              wateredFlowerPosition[1][3] + 7 * Unit>>,
               target |-> <<wateredFlowerPosition[1][1],
                            wateredFlowerPosition[1][2] + 2 * Unit,
                            wateredFlowerPosition[1][3]>>]
         ELSE IF ~IsNull(p.focusedFlowerPosition)
         THEN [position |-> <<p.focusedFlowerPosition[1][1] + 8 * Unit, 8 * Unit,
                              p.focusedFlowerPosition[1][3] + 8 * Unit>>,
               target |-> p.focusedFlowerPosition[1]]
         ELSE [position |-> <<8 * Unit, 8 * Unit, 8 * Unit>>, target |-> <<0, 0, 0>>]
    ELSE [position |-> <<0, Max(5 * Unit, ((p.stemHeight + Unit) * 1200) \div Unit),
                         Max(4 * Unit, p.stemHeight + Unit)>>,
          target |-> IF ~IsNull(p.focusedFlowerPosition) THEN p.focusedFlowerPosition[1]
                     ELSE <<0, (p.stemHeight * 300) \div Unit, 0>>]

\* The effect of flower-scene.tsx 366-415: the camera position and the point
\* it looks at (which is also the target of the orbit controls).
CameraFraming(p) ==
    LET wateredFlowerPosition ==
            WateredFlowerPosition(p.wateredFlowerId, p.plantedFlowers) IN
    IF p.isPlanted
    THEN IF ~IsNull(wateredFlowerPosition)
         THEN LET x == wateredFlowerPosition[1][1]
                  y == wateredFlowerPosition[1][2]
                  z == wateredFlowerPosition[1][3] IN
              [position |-> <<x + 7 * Unit, 9 * Unit, z + 7 * Unit>>,
               target |-> <<x, y + 2 * Unit, z>>]
         ELSE IF ~IsNull(p.focusedFlowerPosition)
         THEN LET x == p.focusedFlowerPosition[1][1]
                  y == p.focusedFlowerPosition[1][2]
                  z == p.focusedFlowerPosition[1][3] IN
              [position |-> <<x + 8 * Unit, 8 * Unit, z + 8 * Unit>>,
               target |-> <<x, y, z>>]
         ELSE [position |-> <<8 * Unit, 8 * Unit, 8 * Unit>>, target |-> <<0, 0, 0>>]
    ELSE LET flowerTotalHeight == p.stemHeight + Unit
             cameraHeight == Max(5 * Unit, (flowerTotalHeight * 1200) \div Unit)
             cameraDistance == Max(4 * Unit, flowerTotalHeight)
             lookAtHeight == (p.stemHeight * 300) \div Unit IN
         [position |-> <<0, cameraHeight, cameraDistance>>,
          target |-> <<0, lookAtHeight, 0>>]

\* CameraController rendered with props p: its effect runs.
CameraEffect(p) ==
    /\ cameraProps' = Some(p)
    /\ camera' = CameraFraming(p)

\* The props the model hands to the controller.  Ids are unique in a snapshot;
\* MaxFlowers + 1 is an id no flower has.
Positions == {<<Unit, 0, 2 * Unit>>, <<-2 * Unit, -300, 0>>}
FlowerLists ==
    {f \in UNION {[1 .. n -> [id : Ids, position : Positions]] : n \in 0 .. MaxFlowers} :
        \A i, j \in DOMAIN f : i # j => f[i].id # f[j].id}
CameraPropsSet ==
    [isPlanted : BOOLEAN,
     focusedFlowerPosition : {Null, Some(<<3 * Unit, 0, -Unit>>)},
     wateredFlowerId : {Null} \cup {Some(i) : i \in 1 .. MaxFlowers + 1},
     plantedFlowers : FlowerLists,
     stemHeight : StemHeights]

\* --------------------------------------------------------------- placement
\* A placement that lowers the vertical coordinate instead of setting it.
RenderedPositionLowered(props) ==
    LET position == IF IsNull(props.position) THEN <<0, 0, 0>>
                    ELSE <<props.position[1][1], props.position[1][2], props.position[1][3]>>
    IN <<position[1],
         position[2] - Max(0, ((props.stemHeight - 4 * Unit) * 150) \div Unit),
         position[3]>>

\* The position PlantedFlowerWithLabel gives its group (flower-scene.tsx
\* 169-179): a copy of props.position (the origin without one) whose vertical
\* component is overwritten for a tall stem.
RenderedPosition(props) ==
    LET position == IF IsNull(props.position) THEN <<0, 0, 0>>
                    ELSE <<props.position[1][1], props.position[1][2], props.position[1][3]>>
    IN IF props.stemHeight > 4 * Unit
       THEN <<position[1],
              -Max(0, ((props.stemHeight - 4 * Unit) * 150) \div Unit),
              position[3]>>
       ELSE position

\* The field rule used for the single view.
SingleFlowerYOffsetAsField(height) ==
    IF height > 4 * Unit THEN -Max(0, ((height - 4 * Unit) * 150) \div Unit) ELSE 0

\* singleFlowerYOffset of FlowerScene (flower-scene.tsx 457-459).
SingleFlowerYOffset(height) == -Max(500, (height * 250) \div Unit)

\* The position plantFlower stores for a flower planted with these props
\* (flower-storage.ts 52-59, 68).
StoredPosition(props) ==
    IF IsNull(props.position) THEN Null
    ELSE Some(PlantPosition(props.position[1], props.stemHeight))

\* One frame of both views for the same stem height: the planted flower of the
\* field (flower-scene.tsx 149-158, 189-192) and the editor's flower (488-492).
\* stored and storedRendered follow the same flower through plantFlower: the
\* position the store keeps for it and where that record is rendered.
Place(props) ==
    placed' = Some([props |-> props,
                    position |-> RenderedPosition(props),
                    singleFlowerYOffset |-> SingleFlowerYOffset(props.stemHeight),
                    stored |-> StoredPosition(props),
                    storedRendered |->
                        RenderedPosition([props EXCEPT !.position = StoredPosition(props)])])

\* Stem heights run from 0.5 to MaxStemHeight units in steps of 0.5.
MaxStemHeight == 7
PlacedHeights == {500 * k : k \in 1 .. 2 * MaxStemHeight}
PlacedPositions ==
    {Null} \cup {Some(<<x, y, Unit>>) : x \in {-Unit, 2 * Unit}, y \in {0, -300, 400, -1200}}
PlacedProps == [position : PlacedPositions, stemHeight : PlacedHeights]

\* ------------------------------------------------------- getPlantedFlowers
\* A position as the store's JSON column holds it: whether it is an array, its
\* length property, and its items (a number, or null for any other item).
JsonArray(items) == [isArray |-> TRUE, length |-> Len(items), items |-> items]
Origin == JsonArray(<<Some(0), Some(0), Some(0)>>)

\* The mapping of flower-storage.ts 36-44 for one row.
NormaliseRow(flower) ==
    [flower EXCEPT
        !.position = IF flower.position.isArray /\ flower.position.length = 3
                     THEN flower.position ELSE Origin,
        !.plantedAt = IF IsNull(flower.plantedAt) THEN Some(Epoch) ELSE flower.plantedAt]

\* getPlantedFlowers (flower-storage.ts 25-45): [] on an error, else one
\* normalised record per row of data (no rows when data is null).
GetPlantedFlowers(data, error) ==
    IF error THEN <<>>
    ELSE [i \in DOMAIN data |-> NormaliseRow(data[i])]

Fetch(data, error) ==
    /\ fetched = Null
    /\ fetched' = Some([data |-> data, error |-> error,
                     result |-> GetPlantedFlowers(data, error)])

\* What the store may answer.  Items of an array are a number or not; an array
\* has 0 to MaxItems items; "abc" stands for the values that are no array.
MaxItems == 4
JsonItems == {Null, Some(Unit)}
JsonPositions ==
    {[isArray |-> FALSE, length |-> 0, items |-> <<>>],
     [isArray |-> FALSE, length |-> 3, items |-> <<>>]}
    \cup {JsonArray(a) : a \in UNION {[1 .. n -> JsonItems] : n \in 0 .. MaxItems}}
MaxRows == 2
FetchedRows ==
    [id : 1 .. MaxRows, position : JsonPositions, plantedAt : {Null, Some(1)}]
FetchedData ==
    {d \in UNION {[1 .. n -> FetchedRows] : n \in 0 .. MaxRows} :
        \A i \in DOMAIN d : d[i].id = i}

\* ---------------------------------------------------------------- the Flower
\* Math.PI in thousandths; angles are thousandths of a radian.
Pi == 3142

\* Math.sin in integers: the argument in thousandths of a radian, the value in
\* millionths.  The argument is reduced to [0, 2*Pi) and the half wave is
\* Bhaskara's 16x(Pi-x) / (5 Pi^2 - 4x(Pi-x)), divided out digit by digit.
RECURSIVE Decimals(_, _, _)
Decimals(r, den, n) ==
    IF n = 0 THEN 0
    ELSE ((r * 10) \div den) * (10 ^ (n - 1)) + Decimals((r * 10) % den, den, n - 1)
HalfWave(x) ==
    LET p == x * (Pi - x)
        num == 16 * p
        den == 5 * Pi * Pi - 4 * p
    IN (num \div den) * (10 ^ 6) + Decimals(num % den, den, 6)
Sin(a) ==
    LET t == a % (2 * Pi) IN
    IF t <= Pi THEN HalfWave(t) ELSE -HalfWave(t - Pi)

\* createRandomGenerator (flower-scene.tsx 216-221).  x = sin(seed + seedOffset)
\* * 10000 counted in hundredths is Sin's value in millionths; x - floor(x) is
\* what is left of it below one, in hundredths.
Random(seed, min, max, seedOffset) ==
    LET x == Sin(seed + seedOffset)
        fraction == x % 100
    IN min + (fraction * (max - min)) \div 100

\* windParams (flower-scene.tsx 242-249).
WindParams(props) ==
    [speed |-> Random(props.seed, 500, 1500, 42 * Unit),
     strength |-> Random(props.seed, 50, 150, 13 * Unit),
     turbulence |-> Random(props.seed, 100, 300, 27 * Unit),
     direction |-> Random(props.seed, 0, 2 * Pi, 99 * Unit)]

\* An angle counted from the second petal on.
PetalAngleFromOne(i, petalCount) == ((i + 1) * 2 * Pi) \div petalCount

\* The angle of petal i (flower-scene.tsx 255).
PetalAngle(i, petalCount) == (i * 2 * Pi) \div petalCount

\* A petal whose shape varies with the place of the flower.
PetalByPlace(props, i) ==
    LET petalSeed == props.seed + i * Unit + props.position[1] IN
    [angle |-> PetalAngle(i, props.petalCount),
     length |-> (props.petalLength * (900 + Random(props.seed, 0, 200, petalSeed))) \div Unit,
     width |-> (props.petalWidth * (900 + Random(props.seed, 0, 200, petalSeed + 100))) \div Unit,
     bend |-> Max(50, Random(props.seed, 100, 300, petalSeed + 200)
                      + Random(props.seed, -100, 100, petalSeed + i * 500)),
     color |-> props.petalColor,
     offsets |-> <<petalSeed, petalSeed + 100, petalSeed + 200, petalSeed + i * 500>>]

\* Petal i of the loop of flower-scene.tsx 254-272.  offsets keeps the seed
\* offsets of its four draws: length, width, base bend, bend variance.
Petal(props, i) ==
    LET petalSeed == props.seed + i * Unit
        length == (props.petalLength * (900 + Random(props.seed, 0, 200, petalSeed))) \div Unit
        width == (props.petalWidth * (900 + Random(props.seed, 0, 200, petalSeed + 100))) \div Unit
        baseBend == Random(props.seed, 100, 300, petalSeed + 200)
        bendVariance == Random(props.seed, -100, 100, petalSeed + i * 500)
        bend == Max(50, baseBend + bendVariance)
    IN [angle |-> PetalAngle(i, props.petalCount),
        length |-> length, width |-> width, bend |-> bend,
        color |-> props.petalColor,
        offsets |-> <<petalSeed, petalSeed + 100, petalSeed + 200, petalSeed + i * 500>>]

\* petals (flower-scene.tsx 252-274): petal i is element i + 1.
Petals(props) == [k \in 1 .. props.petalCount |-> Petal(props, k - 1)]

\* A Flower mounts at time t with props: useMemo computes its wind parameters
\* and its petals once (flower-scene.tsx 223-274).
MountFlower(k, props, t) ==
    /\ IsNull(flowerComps[k])
    /\ flowerComps' = [flowerComps EXCEPT ![k] =
                     Some([props |-> props, mountedAt |-> t,
                           windParams |-> WindParams(props),
                           petals |-> Petals(props)])]

\* The props of a Flower.  petalCount runs 1 .. MaxPetalCount.
MaxPetalCount == 8
Seeds == {420, 777}
FlowerPositions == {<<0, 0, 0>>, <<2 * Unit, -150, -Unit>>}
FlowerPropsSet ==
    [petalCount : 1 .. MaxPetalCount, petalLength : {Unit}, petalWidth : {500},
     stemHeight : {5 * Unit}, petalColor : {"#ff6b6b", "#ffffff"}, seed : Seeds,
     id : Ids, username : Users, position : FlowerPositions, lastWatered : {Null}]

\* ------------------------------------------------------------------ the wind
\* Math.cos, as the sine a quarter turn on.
Cos(a) == Sin(a + Pi \div 2)

\* A wind whose turbulence is added at full size.
DirectedWindFullTurbulence(windParams, time) ==
    LET phase == (time * windParams.speed) \div Unit
        windX == (Sin(phase) * windParams.strength) \div Unit
        windZ == (((Cos(phase + 300) * windParams.strength) \div Unit) * 700) \div Unit
        turbulenceX == (Sin((phase * 2500) \div Unit) * windParams.turbulence) \div Unit
        turbulenceZ == (Cos((phase * 2700) \div Unit) * windParams.turbulence) \div Unit
    IN [windX |-> windX,
        x |-> ((windX + turbulenceX) * (Cos(windParams.direction) \div Unit)) \div Unit,
        z |-> ((windZ + turbulenceZ) * (Sin(windParams.direction) \div Unit)) \div Unit]

\* The wind of one frame (flower-scene.tsx 280-292).  time is in thousandths of
\* a second, the parameters in thousandths, the results in millionths; the
\* factors cos(direction) and sin(direction) are taken in thousandths.
DirectedWind(windParams, time) ==
    LET phase == (time * windParams.speed) \div Unit
        windX == (Sin(phase) * windParams.strength) \div Unit
        windZ == (((Cos(phase + 300) * windParams.strength) \div Unit) * 700) \div Unit
        turbulenceX ==
            (((Sin((phase * 2500) \div Unit) * windParams.turbulence) \div Unit) * 50) \div Unit
        turbulenceZ ==
            (((Cos((phase * 2700) \div Unit) * windParams.turbulence) \div Unit) * 40) \div Unit
    IN [windX |-> windX,
        x |-> ((windX + turbulenceX) * (Cos(windParams.direction) \div Unit)) \div Unit,
        z |-> ((windZ + turbulenceZ) * (Sin(windParams.direction) \div Unit)) \div Unit]

\* A frame callback that adds the wind of the frame to what the groups hold.
WindFrameIntegrating(ref, time) ==
    LET wind == DirectedWind(ref.windParams, time) IN
    [ref EXCEPT
        !.wind = wind,
        !.stemRotation = <<@[1] + (wind.z * 200) \div Unit, @[2],
                           @[3] + ((-wind.x) * 200) \div Unit>>,
        !.headPosition = <<@[1] + (((wind.x * ref.stemHeight) \div Unit) * 200) \div Unit,
                           @[2],
                           @[3] + (((wind.z * ref.stemHeight) \div Unit) * 200) \div Unit>>,
        !.petalRotation = <<(Cos((time * 2500) \div Unit) * 20) \div Unit,
                            (Sin(time * 3) * 30) \div Unit,
                            (Sin(time * 4) * 10) \div Unit>>]

\* The frame callback (flower-scene.tsx 277-306) at elapsed time `time`: it
\* writes two components of the stem rotation, two of the head position and the
\* petal-group rotation; wind keeps the locals of the frame.
WindFrame(ref, time) ==
    LET wind == DirectedWind(ref.windParams, time) IN
    [ref EXCEPT
        !.wind = wind,
        !.stemRotation = <<(wind.z * 200) \div Unit, @[2], ((-wind.x) * 200) \div Unit>>,
        !.headPosition = <<(((wind.x * ref.stemHeight) \div Unit) * 200) \div Unit,
                           @[2],
                           (((wind.z * ref.stemHeight) \div Unit) * 200) \div Unit>>,
        !.petalRotation = <<(Cos((time * 2500) \div Unit) * 20) \div Unit,
                            (Sin(time * 3) * 30) \div Unit,
                            (Sin(time * 4) * 10) \div Unit>>]

\* A Flower mounts: its wind parameters are computed (242-249) and its groups
\* are as the JSX places them (308-338).  time and previous are the elapsed
\* times of its last frame and of the one before, null without one.
MountRefs(k, seed, height) ==
    /\ IsNull(refs[k])
    /\ refs' = [refs EXCEPT ![k] =
                  Some([seed |-> seed, stemHeight |-> height,
                        windParams |-> WindParams([seed |-> seed]),
                        wind |-> [windX |-> 0, x |-> 0, z |-> 0],
                        stemRotation |-> <<0, 0, 0>>,
                        headPosition |-> <<0, height, 0>>,
                        petalRotation |-> <<0, 0, 0>>,
                        time |-> Null, previous |-> Null])]

\* The frame loop calls the callback of instance k with the clock's elapsed
\* time.
Frame(k, time) ==
    /\ ~IsNull(refs[k])
    /\ refs' = [refs EXCEPT ![k] =
                  Some([WindFrame(refs[k][1], time) EXCEPT
                            !.time = Some(time), !.previous = refs[k][1].time])]

\* Elapsed times of the frames: 0 to MaxFrameTicks steps of 0.7 s.
MaxFrameTicks == 3
FrameTimes == {700 * n : n \in 0 .. MaxFrameTicks}

\* -------------------------------------------------------------- FlowerScene
\* The effect of flower-scene.tsx 451-455: it calls onLoad when there is one.
\* loads lists the callbacks called so far.
OnLoadEffect(loads, onLoad) == IF IsNull(onLoad) THEN loads ELSE Append(loads, onLoad[1])

\* FlowerScene mounts with props: every effect runs once.
MountScene(props) ==
    /\ IsNull(flowerScene)
    /\ flowerScene' = Some([props |-> props, mountedWith |-> props.onLoad,
                            renders |-> 1, loads |-> OnLoadEffect(<<>>, props.onLoad)])

\* FlowerScene renders again with props: the effect runs again when its
\* dependency onLoad is not the one of the render before (455).
RenderScene(props) ==
    /\ ~IsNull(flowerScene)
    /\ flowerScene' =
          Some([flowerScene[1] EXCEPT
                   !.props = props,
                   !.renders = @ + 1,
                   !.loads = IF props.onLoad # flowerScene[1].props.onLoad
                             THEN OnLoadEffect(@, props.onLoad) ELSE @])

UnmountScene ==
    /\ ~IsNull(flowerScene)
    /\ flowerScene' = Null

\* The props of a scene: onLoad is missing or one of two function objects (a
\* parent that passes an inline function hands over a new one at each render).
MaxRenders == 4
Callbacks == {Null, Some("f1"), Some("f2")}
ScenePropsSet == [isPlanted : BOOLEAN, stemHeight : StemHeights, onLoad : Callbacks]

\* ------------------------------------------------------- the specifications
\* The store on its own plants one tall flower again and again (the page
\* specification plants every stem height of the editor at every position).
StorePlant ==
    /\ \E u \in Users, e \in BOOLEAN, d \in {Null, Some(0)} :
         PlantFlower([username |-> u, stemHeight |-> 5 * Unit,
                      position |-> <<Unit, 0, 2 * Unit>>], e, d)
    /\ UNCHANGED notStore
StoreWaterFetch ==
    /\ \E c \in CallIds, id \in Ids, e \in BOOLEAN : WaterFetch(c, id, e)
    /\ UNCHANGED notStore
StoreWaterUpdate ==
    /\ \E c \in CallIds, e \in BOOLEAN : WaterUpdate(c, e)
    /\ UNCHANGED notStore
StoreRemove ==
    /\ \E id \in Ids, e \in BOOLEAN : RemoveFlower(id, e)
    /\ UNCHANGED notStore
StoreTick == Tick /\ UNCHANGED notStore

StoreNext == StorePlant \/ StoreWaterFetch \/ StoreWaterUpdate \/ StoreRemove \/ StoreTick

SpecStore == Init /\ [][StoreNext]_vars

SceneRender ==
    /\ \E f \in Snapshots : FieldRender(f)
    /\ UNCHANGED notScene
SceneComplete ==
    /\ \E id \in Ids : WaterComplete(id)
    /\ UNCHANGED notScene

SceneNext == SceneRender \/ SceneComplete

SpecScene == Init /\ [][SceneNext]_vars

\* Clicks on "plant" the page model follows.
MaxClicks == 3
PageSignIn == (\E u \in Users : SignIn(u)) /\ UNCHANGED <<storeVars, notPage>>
PageSignOut == SignOut /\ UNCHANGED <<storeVars, notPage>>
PagePlant ==
    /\ Len(plantedFlowers) < MaxClicks
    /\ \E x, z \in {-Unit, Unit}, e \in BOOLEAN, d \in {Null, Some(0)}, h \in StemHeights :
         HandlePlantFlower(x, z, e, d, h)
    /\ UNCHANGED notPage
PageToggle == ToggleView /\ UNCHANGED <<storeVars, notPage>>

PageNext == PageSignIn \/ PageSignOut \/ PagePlant \/ PageToggle

SpecPage == Init /\ [][PageNext]_vars

CameraRender == (\E p \in CameraPropsSet : CameraEffect(p)) /\ UNCHANGED notCamera

CameraNext == CameraRender

SpecCamera == Init /\ [][CameraNext]_vars

PlaceFlower == (\E props \in PlacedProps : Place(props)) /\ UNCHANGED notPlaced

PlaceNext == PlaceFlower

SpecPlacement == Init /\ [][PlaceNext]_vars

FetchFlowers ==
    /\ \E d \in FetchedData, e \in BOOLEAN : Fetch(IF e THEN <<>> ELSE d, e)
    /\ UNCHANGED notFetched

FetchNext == FetchFlowers

SpecFetch == Init /\ [][FetchNext]_vars

FlowerMount ==
    /\ \E k \in Instances, props \in FlowerPropsSet, t \in 1 .. MaxTime :
         /\ props.id = k
         /\ MountFlower(k, props, t)
    /\ UNCHANGED notFlowers

FlowerNext == FlowerMount

SpecFlower == Init /\ [][FlowerNext]_vars

RefsMount ==
    /\ \E k \in Instances, seed \in Seeds, h \in StemHeights : MountRefs(k, seed, h)
    /\ UNCHANGED notRefs
RefsFrame ==
    /\ \E k \in Instances, time \in FrameTimes : Frame(k, time)
    /\ UNCHANGED notRefs

WindNext == RefsMount \/ RefsFrame

SpecWind == Init /\ [][WindNext]_vars

SceneMount ==
    /\ \E props \in ScenePropsSet : MountScene(props)
    /\ UNCHANGED notFlowerScene
SceneRerender ==
    /\ ~IsNull(flowerScene) /\ flowerScene[1].renders < MaxRenders
    /\ \E props \in ScenePropsSet : RenderScene(props)
    /\ UNCHANGED notFlowerScene
SceneUnmount == UnmountScene /\ UNCHANGED notFlowerScene

SceneLoadNext == SceneMount \/ SceneRerender \/ SceneUnmount

SpecSceneLoad == Init /\ [][SceneLoadNext]_vars

\* ------------------------------------------------------------------- claims
\* C1: a mounted planted flower starts the one-shot watering effect exactly
\* once for each change of lastWatered from its previously observed value, and
\* never while lastWatered keeps its value, whenever the effect completes.
C1_OneStartPerChange ==
    \A id \in DOMAIN comps : comps[id].started = comps[id].changes

\* C2: every successful waterFlower(id) adds exactly one to the stored
\* waterCount: the stored count of a flower is its initial count (0) plus the
\* number of waterFlower calls on it that returned a record.
C2_WaterCountCountsWaterings ==
    \A id \in DOMAIN table : OrZero(table[id].waterCount) = watered[id]

\* C3: a failed planting leaves the page's plantedFlowers unchanged, so every
\* element of the local list is a record a successful store operation returned.
C3_LocalListHoldsStoredRecords ==
    \A i \in DOMAIN plantedFlowers : ~IsNull(plantedFlowers[i].value)

\* The default field framing (flower-scene.tsx 392-398).
DefaultFraming == [position |-> <<8 * Unit, 8 * Unit, 8 * Unit>>, target |-> <<0, 0, 0>>]
InField == ~IsNull(cameraProps) /\ cameraProps[1].isPlanted
WateredIdMissing ==
    /\ InField
    /\ ~IsNull(cameraProps[1].wateredFlowerId)
    /\ \A i \in DOMAIN cameraProps[1].plantedFlowers :
           cameraProps[1].plantedFlowers[i].id # cameraProps[1].wateredFlowerId[1]

\* C4: in field mode, when wateredFlowerId is the id of a flower of the
\* snapshot at (x, y, z), the camera is at (x+7, 9, z+7) and looks at
\* (x, y+2, z); for [{id: 1, position: [1, 0, 2]}] and watered id 1 the target
\* is [1, 2, 2].
C4_WateredFraming ==
    InField /\ ~IsNull(cameraProps[1].wateredFlowerId) =>
        LET p == cameraProps[1] IN
        /\ \A i \in DOMAIN p.plantedFlowers :
              p.plantedFlowers[i].id = p.wateredFlowerId[1] =>
                 LET pos == p.plantedFlowers[i].position IN
                 /\ camera.position = <<pos[1] + 7 * Unit, 9 * Unit, pos[3] + 7 * Unit>>
                 /\ camera.target = <<pos[1], pos[2] + 2 * Unit, pos[3]>>
        /\ (p.plantedFlowers = <<[id |-> 1, position |-> <<Unit, 0, 2 * Unit>>]>>
              /\ p.wateredFlowerId = Some(1))
              => camera.target = <<Unit, 2 * Unit, 2 * Unit>>

C4_Witness ==
    /\ InField
    /\ cameraProps[1].plantedFlowers = <<[id |-> 1, position |-> <<Unit, 0, 2 * Unit>>]>>
    /\ cameraProps[1].wateredFlowerId = Some(1)
    /\ ~IsNull(cameraProps[1].focusedFlowerPosition)
    /\ camera.target = <<Unit, 2 * Unit, 2 * Unit>>

\* C5 as stated: in field mode a wateredFlowerId that names no flower of the
\* snapshot gives the default framing, position (8, 8, 8) and target (0, 0, 0),
\* whatever the other inputs are.
C5_MissingIdAlwaysDefault ==
    WateredIdMissing => camera = DefaultFraming

\* C5 as amended: in field mode a wateredFlowerId that names no flower of the
\* snapshot gives the default framing when focusedFlowerPosition is null, and
\* the just-planted framing of focusedFlowerPosition = (x, y, z) otherwise:
\* position (x+8, 8, z+8), target (x, y, z).
C5_MissingIdFallsThrough ==
    WateredIdMissing =>
        LET focus == cameraProps[1].focusedFlowerPosition IN
        IF IsNull(focus) THEN camera = DefaultFraming
        ELSE camera = [position |-> <<focus[1][1] + 8 * Unit, 8 * Unit,
                                      focus[1][3] + 8 * Unit>>,
                       target |-> focus[1]]

C5_Witness ==
    /\ WateredIdMissing
    /\ Len(cameraProps[1].plantedFlowers) > 0
    /\ IsNull(cameraProps[1].focusedFlowerPosition)
    /\ camera = DefaultFraming

\* A position of three numbers.
WellFormed(position) ==
    /\ position.isArray
    /\ position.length = 3
    /\ Len(position.items) = 3
    /\ \A k \in DOMAIN position.items : ~IsNull(position.items[k])

\* C6: getPlantedFlowers returns one record per fetched row; a row whose
\* position is malformed or missing gets [0, 0, 0], a row without plantedAt
\* gets the epoch, nothing else of any row changes, and so every returned
\* record has a position of three numbers.
C6_FetchedRowsAreRepaired ==
    ~IsNull(fetched) /\ ~fetched[1].error =>
        LET data == fetched[1].data  result == fetched[1].result IN
        /\ Len(result) = Len(data)
        /\ \A i \in DOMAIN data :
              /\ result[i].id = data[i].id
              /\ result[i].position =
                    (IF WellFormed(data[i].position) THEN data[i].position ELSE Origin)
              /\ result[i].plantedAt =
                    (IF IsNull(data[i].plantedAt) THEN Some(Epoch) ELSE data[i].plantedAt)
              /\ WellFormed(result[i].position)

\* The field view's offset for a stem height: 0 up to 4, -(height-4)*0.15 above.
FieldOffset(height) ==
    IF height <= 4 * Unit THEN 0 ELSE -(((height - 4 * Unit) * 150) \div Unit)

\* C7 as stated: a planted flower whose record position is (x, y, z) is
\* rendered at (x, y - max(0, (stemHeight-4)*0.15), z).
C7_RenderedIsLoweredByOffset ==
    ~IsNull(placed) /\ ~IsNull(placed[1].props.position) =>
        LET pos == placed[1].props.position[1]  h == placed[1].props.stemHeight IN
        placed[1].position =
            <<pos[1], pos[2] - Max(0, ((h - 4 * Unit) * 150) \div Unit), pos[3]>>

\* C7 as amended: a planted flower whose record position is (x, y, z) is
\* rendered at (x, y, z) when stemHeight <= 4 and at
\* (x, -(stemHeight-4)*0.15, z) when stemHeight > 4: for a tall stem the
\* vertical coordinate is set to the offset, whatever y is (-0.3 for
\* stemHeight 6), and x and z are never changed.
C7_RenderedIsSetToOffset ==
    ~IsNull(placed) /\ ~IsNull(placed[1].props.position) =>
        LET pos == placed[1].props.position[1]  h == placed[1].props.stemHeight IN
        /\ placed[1].position =
              <<pos[1], IF h > 4 * Unit THEN FieldOffset(h) ELSE pos[2], pos[3]>>
        /\ h = 6 * Unit => placed[1].position[2] = -300

C7_Witness ==
    /\ ~IsNull(placed)
    /\ placed[1].props.stemHeight = 6 * Unit
    /\ placed[1].props.position = Some(<<2 * Unit, 400, Unit>>)
    /\ placed[1].position = <<2 * Unit, -300, Unit>>

\* C8 as stated: for every stemHeight the single-flower view applies the same
\* vertical offset as the field view applies to a planted flower (at y = 0)
\* with that stemHeight.
C8_SameOffsetInBothViews ==
    ~IsNull(placed) /\ ~IsNull(placed[1].props.position)
        /\ placed[1].props.position[1][2] = 0
        => placed[1].singleFlowerYOffset = placed[1].position[2]

\* C8 as amended: the two views place by different rules.  The single-flower
\* view applies -max(0.5, stemHeight*0.25); the field view applies 0 when
\* stemHeight <= 4 and -(stemHeight-4)*0.15 otherwise; for every positive
\* stemHeight the single-flower offset is strictly below the field offset.
C8_SingleViewHasItsOwnOffset ==
    ~IsNull(placed) /\ ~IsNull(placed[1].props.position)
        /\ placed[1].props.position[1][2] = 0
        => LET h == placed[1].props.stemHeight IN
           /\ placed[1].singleFlowerYOffset = -Max(500, (h * 250) \div Unit)
           /\ placed[1].position[2] = FieldOffset(h)
           /\ placed[1].singleFlowerYOffset < placed[1].position[2]

C8_Witness ==
    /\ ~IsNull(placed)
    /\ placed[1].props.stemHeight = 6 * Unit
    /\ placed[1].props.position = Some(<<2 * Unit, 0, Unit>>)
    /\ placed[1].singleFlowerYOffset = -1500
    /\ placed[1].position[2] = -300

\* The shape of a petal sequence: angle, length, width and bend of each petal.
Shape(petals) ==
    [k \in DOMAIN petals |-> <<petals[k].angle, petals[k].length,
                               petals[k].width, petals[k].bend>>]
SameParameters(p, q) ==
    /\ p.petalCount = q.petalCount
    /\ p.petalLength = q.petalLength
    /\ p.petalWidth = q.petalWidth
    /\ p.seed = q.seed

\* C9: two Flower instances with the same petalCount, petalLength, petalWidth
\* and seed have the same petal angle/length/width/bend sequences and the same
\* wind parameters, whatever their id, owner, position, colour, lastWatered or
\* mount time.
C9_SameSeedSameGeometry ==
    \A a, b \in Instances :
        ~IsNull(flowerComps[a]) /\ ~IsNull(flowerComps[b])
            /\ SameParameters(flowerComps[a][1].props, flowerComps[b][1].props)
        => /\ Shape(flowerComps[a][1].petals) = Shape(flowerComps[b][1].petals)
           /\ flowerComps[a][1].windParams = flowerComps[b][1].windParams

C9_Witness ==
    /\ ~IsNull(flowerComps[1]) /\ ~IsNull(flowerComps[2])
    /\ SameParameters(flowerComps[1][1].props, flowerComps[2][1].props)
    /\ flowerComps[1][1].props.petalCount >= 3
    /\ flowerComps[1][1].props.id # flowerComps[2][1].props.id
    /\ flowerComps[1][1].props.position # flowerComps[2][1].props.position
    /\ flowerComps[1][1].props.petalColor # flowerComps[2][1].props.petalColor
    /\ flowerComps[1][1].mountedAt # flowerComps[2][1].mountedAt
    /\ Shape(flowerComps[1][1].petals) = Shape(flowerComps[2][1].petals)
    /\ \E i, j \in DOMAIN flowerComps[1][1].petals :
          flowerComps[1][1].petals[i].bend # flowerComps[1][1].petals[j].bend

\* C10: for every petalCount N >= 1 the layout has exactly N petals, petal i
\* has the angle i/N * 2*pi (to the thousandth the model counts in), and the
\* angles rise strictly with the index and stay within [0, 2*pi).
C10_PetalAngles ==
    \A a \in Instances :
        ~IsNull(flowerComps[a]) =>
            LET n == flowerComps[a][1].props.petalCount
                petals == flowerComps[a][1].petals IN
            /\ Len(petals) = n
            /\ \A k \in 1 .. n :
                  /\ n * petals[k].angle <= (k - 1) * 2 * Pi
                  /\ n * petals[k].angle > (k - 1) * 2 * Pi - n
                  /\ petals[k].angle >= 0
                  /\ petals[k].angle < 2 * Pi
            /\ \A k \in 1 .. n - 1 : petals[k].angle < petals[k + 1].angle

C10_Witness ==
    /\ ~IsNull(flowerComps[1])
    /\ flowerComps[1][1].props.petalCount = MaxPetalCount
    /\ Len(flowerComps[1][1].petals) = MaxPetalCount
    /\ flowerComps[1][1].petals[MaxPetalCount].angle > Pi

\* What the frame callback wrote.
Transforms(ref) == <<ref.stemRotation, ref.headPosition, ref.petalRotation>>

\* C11: the transforms a frame at elapsed time t leaves depend on t, the wind
\* parameters and stemHeight only: two instances with the same seed and
\* stemHeight whose last frames have the same elapsed time hold the same stem
\* rotation, head position and petal-group rotation, whatever frames each had
\* before (none, earlier ones or later ones).
C11_FramesKeepNoState ==
    \A a, b \in Instances :
        ~IsNull(refs[a]) /\ ~IsNull(refs[b])
            /\ ~IsNull(refs[a][1].time) /\ refs[a][1].time = refs[b][1].time
            /\ refs[a][1].seed = refs[b][1].seed
            /\ refs[a][1].stemHeight = refs[b][1].stemHeight
        => Transforms(refs[a][1]) = Transforms(refs[b][1])

C11_Witness ==
    /\ ~IsNull(refs[1]) /\ ~IsNull(refs[2])
    /\ refs[1][1].seed = refs[2][1].seed
    /\ refs[1][1].stemHeight = refs[2][1].stemHeight
    /\ ~IsNull(refs[1][1].time) /\ refs[1][1].time = refs[2][1].time
    /\ ~IsNull(refs[1][1].previous) /\ refs[1][1].previous[1] > refs[1][1].time[1]
    /\ IsNull(refs[2][1].previous)
    /\ refs[1][1].stemRotation[1] # 0 /\ refs[1][1].stemRotation[3] # 0
    /\ refs[1][1].headPosition[1] # 0
    /\ Transforms(refs[1][1]) = Transforms(refs[2][1])

Abs(v) == IF v < 0 THEN -v ELSE v
\* strength + 0.05 * turbulence and 0.7 * strength + 0.04 * turbulence, in
\* millionths.
BoundX(windParams) == windParams.strength * Unit + windParams.turbulence * 50
BoundZ(windParams) == windParams.strength * 700 + windParams.turbulence * 40

\* C12: after a frame at any elapsed time, |directed wind X| is at most
\* strength + 0.05*turbulence and |directed wind Z| at most 0.7*strength +
\* 0.04*turbulence; each stem tilt is at most 0.2 times the bound of its wind
\* component, each head displacement at most stemHeight*0.2 times it; and the
\* base term windX of a frame at elapsed time 0 is 0.
C12_WindIsBounded ==
    \A a \in Instances :
        ~IsNull(refs[a]) /\ ~IsNull(refs[a][1].time) =>
            LET ref == refs[a][1]
                bx == BoundX(ref.windParams)
                bz == BoundZ(ref.windParams) IN
            /\ Abs(ref.wind.x) <= bx
            /\ Abs(ref.wind.z) <= bz
            /\ 5 * Abs(ref.stemRotation[3]) <= bx
            /\ 5 * Abs(ref.stemRotation[1]) <= bz
            /\ 5 * Unit * Abs(ref.headPosition[1]) <= ref.stemHeight * bx
            /\ 5 * Unit * Abs(ref.headPosition[3]) <= ref.stemHeight * bz
            /\ ref.time = Some(0) => ref.wind.windX = 0

C12_Witness ==
    /\ ~IsNull(refs[1]) /\ ~IsNull(refs[2])
    /\ refs[1][1].time = Some(0) /\ refs[1][1].wind.windX = 0
    /\ refs[1][1].wind.z # 0
    /\ ~IsNull(refs[2][1].time) /\ refs[2][1].time[1] > 0
    /\ refs[2][1].wind.windX # 0
    /\ 2 * Abs(refs[2][1].wind.x) > BoundX(refs[2][1].windParams)
    /\ refs[2][1].stemHeight = 5 * Unit
    /\ refs[2][1].headPosition[1] # 0

InSingle == ~IsNull(cameraProps) /\ ~cameraProps[1].isPlanted

\* C13: in single mode the camera is at (0, max(5, (stemHeight+1)*1.2),
\* max(4, stemHeight+1)) and looks at (0, 0.3*stemHeight, 0), whatever
\* focusedFlowerPosition, wateredFlowerId and plantedFlowers are; with any
\* taller stem and the same other props the camera is no lower and no nearer.
C13_SingleFramingFollowsStemHeight ==
    InSingle =>
        LET h == cameraProps[1].stemHeight IN
        /\ camera.position = <<0, Max(5 * Unit, ((h + Unit) * 1200) \div Unit),
                               Max(4 * Unit, h + Unit)>>
        /\ camera.target = <<0, (h * 300) \div Unit, 0>>
        /\ \A taller \in PlacedHeights :
              taller >= h =>
                 LET c == CameraFraming([cameraProps[1] EXCEPT !.stemHeight = taller]) IN
                 /\ c.position[2] >= camera.position[2]
                 /\ c.position[3] >= camera.position[3]

C13_Witness ==
    /\ InSingle
    /\ cameraProps[1].stemHeight = 5 * Unit
    /\ ~IsNull(cameraProps[1].focusedFlowerPosition)
    /\ cameraProps[1].wateredFlowerId = Some(1)
    /\ Len(cameraProps[1].plantedFlowers) > 0
    /\ cameraProps[1].plantedFlowers[1].id = 1
    /\ camera = [position |-> <<0, 7200, 6 * Unit>>, target |-> <<0, 1500, 0>>]

\* The square of the distance between two points.
DistanceSquared(a, b) ==
    (a[1] - b[1]) * (a[1] - b[1]) + (a[2] - b[2]) * (a[2] - b[2])
        + (a[3] - b[3]) * (a[3] - b[3])
\* The framing of the field when the flower at position has just been watered.
WateredFramingOf(position) ==
    CameraFraming([isPlanted |-> TRUE, focusedFlowerPosition |-> Null,
                   wateredFlowerId |-> Some(1),
                   plantedFlowers |-> <<[id |-> 1, position |-> position]>>,
                   stemHeight |-> 3 * Unit])
JustPlanted ==
    /\ InField
    /\ ~IsNull(cameraProps[1].focusedFlowerPosition)
    /\ IsNull(WateredFlowerPosition(cameraProps[1].wateredFlowerId,
                                    cameraProps[1].plantedFlowers))

\* C14: in field mode the just-planted framing of a position puts the camera
\* closer to its look-at target and lower than the just-watered framing of the
\* same position does, and its look-at target is the focused position itself.
C14_PlantedCloserAndLower ==
    JustPlanted =>
        LET focus == cameraProps[1].focusedFlowerPosition[1]
            w == WateredFramingOf(focus) IN
        /\ DistanceSquared(camera.position, camera.target)
              < DistanceSquared(w.position, w.target)
        /\ camera.position[2] < w.position[2]
        /\ camera.target = focus

\* A row without the two fields a watering writes.
Unwatered(row) == [row EXCEPT !.lastWatered = Null, !.waterCount = Null]
\* What a step of waterFlower call c may do to the table.
WaterStepKeepsFrame(c) ==
    /\ DOMAIN table' = DOMAIN table
    /\ IF calls'[c].pc = "done" /\ ~IsNull(calls'[c].result)
       THEN \A id \in DOMAIN table :
               IF id = calls'[c].flowerId
               THEN Unwatered(table'[id]) = Unwatered(table[id])
               ELSE table'[id] = table[id]
       ELSE table' = table

\* C15: a waterFlower(id) that returns a record has changed only lastWatered
\* and waterCount of the row with that id: its other fields and every other
\* row are as before; a waterFlower that returns null, and the read of any
\* waterFlower, change no row.
C15_WateringChangesTwoFields ==
    [][\A c \in CallIds : calls'[c] # calls[c] => WaterStepKeepsFrame(c)]_vars

C15_Witness ==
    /\ DOMAIN table = {1, 2}
    /\ watered[1] = 1
    /\ table[1].waterCount = Some(1) /\ ~IsNull(table[1].lastWatered)
    /\ table[1].plantedAt # table[1].lastWatered
    /\ IsNull(table[2].lastWatered)
    /\ calls[1].pc = "done" /\ ~IsNull(calls[1].result)
    /\ calls[2].pc = "done" /\ IsNull(calls[2].result)

\* C16: a scene mounted with an onLoad callback has called it exactly once,
\* however often it has rendered again and whatever props it was given since.
C16_OnLoadCalledOnce ==
    ~IsNull(flowerScene) /\ ~IsNull(flowerScene[1].mountedWith)
        => Len(flowerScene[1].loads) = 1

\* C17: within one flower the seed offsets of the draws for length, width,
\* base bend and bend variance of all petals are pairwise distinct.
C17_DrawsUseDistinctOffsets ==
    \A a \in Instances :
        ~IsNull(flowerComps[a]) =>
            LET petals == flowerComps[a][1].petals IN
            \A i, j \in DOMAIN petals, d, e \in 1 .. 4 :
                <<i, d>> # <<j, e>> => petals[i].offsets[d] # petals[j].offsets[e]

\* The flowers that stay mounted over a step and whose lastWatered it changes.
ChangedIds ==
    {id \in DOMAIN comps \cap DOMAIN comps' : comps'[id].lastWatered # comps[id].lastWatered}
\* Over a step, no flower but flower a starts its effect: a flower that stays
\* mounted keeps its count of starts, a flower that mounts has none.
OthersDoNotStart(a) ==
    \A id \in DOMAIN comps' \ {a} :
        comps'[id].started = IF id \in DOMAIN comps THEN comps[id].started ELSE 0

\* C18: when a new snapshot changes lastWatered of flower a only, the one-shot
\* effect starts on a and on no other planted flower, also when the snapshot
\* reorders, adds or removes other flowers.
C18_EffectStartsOnWateredFlowerOnly ==
    [][\A a \in Ids :
          ChangedIds = {a} =>
              /\ comps'[a].started = comps[a].started + 1
              /\ OthersDoNotStart(a)]_vars

NoOtherFlowerStarts == [][\A a \in Ids : ChangedIds = {a} => OthersDoNotStart(a)]_vars

\* The framing the page's field view gets: the page hands the scene its view
\* state and no watered id (page.tsx 184-197).
PageFraming ==
    CameraFraming([isPlanted |-> isPlanted,
                   focusedFlowerPosition |-> focusedFlowerPosition,
                   wateredFlowerId |-> Null, plantedFlowers |-> <<>>,
                   stemHeight |-> stemHeight])
\* A step that toggles the view from the editor to the field.
ToggledToField == ~isPlanted /\ isPlanted' /\ plantedFlowers' = plantedFlowers

\* C19: after any sequence of plant and toggle-view actions the just-planted
\* focus is null whenever the page is in single-flower mode; so a toggle from
\* the editor back to the field leaves it null and the field gets the default
\* garden framing, never the focus of an earlier planting.
C19_EditorClearsFocus ==
    /\ [](~isPlanted => focusedFlowerPosition = Null)
    /\ [][ToggledToField =>
            /\ focusedFlowerPosition' = Null
            /\ PageFraming' = DefaultFraming]_vars

C19_Witness ==
    /\ isPlanted
    /\ Len(plantedFlowers) = 1
    /\ focusedFlowerPosition = Null
    /\ PageFraming = DefaultFraming

\* C20: for every stemHeight and every input position, the record plantFlower
\* stores is rendered where the rule put it: rendering the stored position
\* gives the stored position again, with the vertical coordinate that one
\* application of the rule to the input position gives.
C20_PlacementRuleIsIdempotent ==
    ~IsNull(placed) /\ ~IsNull(placed[1].props.position) =>
        /\ placed[1].storedRendered = placed[1].stored[1]
        /\ placed[1].storedRendered[2] = placed[1].position[2]

C20_Witness ==
    /\ ~IsNull(placed)
    /\ placed[1].props.stemHeight = 6 * Unit
    /\ placed[1].props.position = Some(<<-Unit, 400, Unit>>)
    /\ placed[1].stored = Some(<<-Unit, -300, Unit>>)
    /\ placed[1].storedRendered = <<-Unit, -300, Unit>>

====
